---- MODULE Spec2Model ----
(***************************************************************************)
(* Model of the vocabulary resolution pipeline (home/ai_helper.py) and of  *)
(* the tutor tool-call loop (translator/ai_engine.py).                     *)
(*                                                                         *)
(* Strings are sequences of tokens (each token a TLA+ string); the empty   *)
(* string is <<>> and Python's None is the reserved one-token sequence     *)
(* None, so that string-valued and None-valued fields stay comparable.     *)
(***************************************************************************)
EXTENDS Integers, Sequences, FiniteSets, TLC

VARIABLES
    \* ---- VocabularyAIHelper (home/ai_helper.py) ----
    h_api_key,        \* self.api_key is set (truthy)
    h_client,         \* self._client is not None
    h_pc,             \* position inside get_vocabulary_info
    h_chinese,        \* argument chinese
    h_vietnamese,     \* argument vietnamese
    h_reply,          \* what client.chat.completions.create did in this call
    h_primaryReqs,    \* prompts sent through client.chat.completions.create
    h_primaryFailed,  \* an except clause of get_vocabulary_info was entered
    h_translateCalls, \* calls of GoogleTranslator.translate in this call
    h_backendReqs,    \* translation requests issued to a backend in this call
    h_translation,    \* what GoogleTranslator.translate produced in this call
    h_result,         \* what get_vocabulary_info produced
    h_construct,      \* what OpenAI(...) did inside the client property
    \* ---- ChineseAIEngine (translator/ai_engine.py) ----
    e_api_key,        \* self.config.api_key is set (truthy)
    e_client,         \* self._client is not None
    e_pc,             \* position inside translate
    e_messages,       \* the local list messages (the turn history)
    e_requests,       \* calls of client.chat.completions.create in this call
    e_message,        \* what the first request produced
    e_final,          \* what the second request produced
    e_idx,            \* index of the next tool call of the for loop
    e_saves,          \* argument triples save_vocabulary was called with
    e_file,           \* lines of the vocabulary file tu_vung_trung_viet.txt
    e_result,         \* what translate produced
    \* ---- get_openai_client (translator/ai_engine.py) ----
    g_env,            \* OPENAI_API_KEY is set in the environment
    g_client,         \* the module global client is not None
    g_construct,      \* what OpenAI(...) did inside the last call
    g_ret,            \* what the last call produced
    \* ---- _parse_ai_response applied to one object, bare and fenced ----
    p_pc,             \* position of the comparison
    p_json,           \* the JSON object text J
    p_tag,            \* the language tag after the opening fence
    p_bare,           \* _parse_ai_response(J)
    p_fenced,         \* _parse_ai_response(fence tag J fence)
    \* ---- add_vocabulary_view (home/views.py), one entry per handler ----
    v_store,          \* chinese of the Vocabulary rows, in creation order
    v_pc,             \* position of each handler inside the view
    v_outcome,        \* ai_result of each handler
    v_created         \* rows each handler created in its current POST

h_vars == <<h_api_key, h_client, h_pc, h_chinese, h_vietnamese, h_reply,
            h_primaryReqs, h_primaryFailed, h_translateCalls, h_backendReqs,
            h_translation, h_result, h_construct>>

e_vars == <<e_api_key, e_client, e_pc, e_messages, e_requests, e_message,
            e_final, e_idx, e_saves, e_file, e_result>>

g_vars == <<g_env, g_client, g_construct, g_ret>>

p_vars == <<p_pc, p_json, p_tag, p_bare, p_fenced>>

v_vars == <<v_store, v_pc, v_outcome, v_created>>

vars == <<h_vars, e_vars, g_vars, p_vars, v_vars>>

-----------------------------------------------------------------------------
(* Python values *)

None == <<"<None>">>

\* Python truthiness of an Optional[str]
Truthy(s) == s # None /\ s # <<>>

\* Python: a or b
PyOr(a, b) == IF Truthy(a) THEN a ELSE b

\* str(x) inside an f-string: None prints as the text "None"
Str(s) == IF s = None THEN <<"None">> ELSE s

-----------------------------------------------------------------------------
(* TranslationMethod *)

OPENAI == "AI (OpenAI)"
GOOGLE == "Google Translate"
FALLBACK == "Google Translate (Du phong)"

-----------------------------------------------------------------------------
(* VocabularyData / TranslationResult *)

VocabularyData(chinese, pinyin, vietnamese, example_sentence) ==
    [chinese |-> chinese, pinyin |-> pinyin, vietnamese |-> vietnamese,
     example_sentence |-> example_sentence]

NoData == VocabularyData(None, None, None, None)

\* TranslationResult(...).to_dict(): "data" is present iff self.data is
\* truthy (a dataclass instance always is), "error" iff self.error is truthy.
TranslationResult_to_dict(success, method, hasData, data, error) ==
    [kind |-> "return", success |-> success, method |-> method,
     hasData |-> hasData, data |-> IF hasData THEN data ELSE NoData,
     hasError |-> Truthy(error), error |-> IF Truthy(error) THEN error ELSE None]

\* get_vocabulary_info has not returned yet
NoResult ==
    [kind |-> "none", success |-> FALSE, method |-> "", hasData |-> FALSE,
     data |-> NoData, hasError |-> FALSE, error |-> None]

\* an exception leaves get_vocabulary_info
Propagated(exc) ==
    [kind |-> "raise", success |-> FALSE, method |-> "", hasData |-> FALSE,
     data |-> NoData, hasError |-> TRUE, error |-> exc]

-----------------------------------------------------------------------------
(* GoogleTranslator.translate *)

\* What a translation backend does when it is reached.
BackendModes == {"missing", "ok", "raise"}

\* Texts a backend can hand back on success (deep-translator may return None).
Translations == {<<"xinchao">>, <<>>, None}

TranslateDict(success, translated, error) ==
    [kind |-> "dict", success |-> success, translated |-> translated,
     error |-> error]

TranslateRaise(exc) ==
    [kind |-> "raise", success |-> FALSE, translated |-> None, error |-> exc]

NoTranslation ==
    [kind |-> "none", success |-> FALSE, translated |-> None, error |-> None]

BackendReq(backend, text, source_lang, target_lang) ==
    [backend |-> backend, text |-> text, source |-> source_lang,
     target |-> target_lang]

\* The second try block: googletrans; every Exception (ImportError
\* included) becomes a failure dict.
GoogleTranslator_googletrans(text, source_lang, target_lang, b2, out) ==
    CASE b2 = "missing" ->
            [ret |-> TranslateDict(FALSE, None,
                        <<"Loi dich: ", "No module named googletrans">>),
             reqs |-> <<>>]
      [] b2 = "raise" ->
            [ret |-> TranslateDict(FALSE, None,
                        <<"Loi dich: ", "googletrans error">>),
             reqs |-> <<BackendReq("googletrans", text, source_lang, target_lang)>>]
      [] OTHER ->
            [ret |-> TranslateDict(TRUE, out, None),
             reqs |-> <<BackendReq("googletrans", text, source_lang, target_lang)>>]

\* mutant: the first try block catches every Exception and goes on to
\* googletrans after deep-translator failed
GoogleTranslator_translate_M_retry(text, source_lang, target_lang, b1, b2, out) ==
    CASE b1 = "missing" ->
            GoogleTranslator_googletrans(text, source_lang, target_lang, b2, out)
      [] b1 = "raise" ->
            LET g == GoogleTranslator_googletrans(text, source_lang, target_lang, b2, out)
            IN  [ret |-> g.ret,
                 reqs |-> <<BackendReq("deep-translator", text, source_lang, target_lang)>>
                          \o g.reqs]
      [] OTHER ->
            [ret |-> TranslateDict(TRUE, out, None),
             reqs |-> <<BackendReq("deep-translator", text, source_lang, target_lang)>>]

\* The first try block catches ImportError only: any other exception of
\* deep-translator leaves translate().
GoogleTranslator_translate(text, source_lang, target_lang, b1, b2, out) ==
    CASE b1 = "missing" ->
            GoogleTranslator_googletrans(text, source_lang, target_lang, b2, out)
      [] b1 = "raise" ->
            [ret |-> TranslateRaise(<<"deep-translator error">>),
             reqs |-> <<BackendReq("deep-translator", text, source_lang, target_lang)>>]
      [] OTHER ->
            [ret |-> TranslateDict(TRUE, out, None),
             reqs |-> <<BackendReq("deep-translator", text, source_lang, target_lang)>>]

-----------------------------------------------------------------------------
(* VocabularyAIHelper._use_google_fallback *)

TranslateCall(text, source_lang, target_lang) ==
    [text |-> text, source |-> source_lang, target |-> target_lang]

FallbackFailure ==
    TranslationResult_to_dict(FALSE, GOOGLE, FALSE, NoData,
                              <<"Khong the dich voi Google Translate">>)

\* mutant: the except clause of _use_google_fallback is missing
FallbackException_M_propagate(exc) == Propagated(exc)

FallbackException(exc) ==
    TranslationResult_to_dict(FALSE, GOOGLE, FALSE, NoData,
                              <<"Loi Google Translate: ">> \o Str(exc))

\* mutants of the record the fallback builds: a pinyin is made up from the
\* translated text (pin), or the example of the vietnamese -> chinese
\* direction keeps the order of the other direction (sameOrder)
FallbackBranch_M(zh, word, b1, b2, out, pin, sameOrder) ==
    LET src == IF zh THEN "zh-CN" ELSE "vi"
        tgt == IF zh THEN "vi" ELSE "zh-CN"
        t   == GoogleTranslator_translate(word, src, tgt, b1, b2, out)
        tr  == t.ret.translated
        py  == IF pin THEN Str(tr) ELSE <<>>
        rec == IF zh
               THEN VocabularyData(word, py, tr, word \o <<" - ">> \o Str(tr))
               ELSE VocabularyData(tr, py, word,
                        IF sameOrder THEN word \o <<" - ">> \o Str(tr)
                        ELSE Str(tr) \o <<" - ">> \o word)
    IN  [calls |-> <<TranslateCall(word, src, tgt)>>,
         reqs |-> t.reqs,
         translation |-> t.ret,
         result |-> CASE t.ret.kind = "raise" -> FallbackException(t.ret.error)
                      [] t.ret.success ->
                            TranslationResult_to_dict(TRUE, FALLBACK, TRUE, rec, None)
                      [] OTHER -> FallbackFailure]

FallbackBranch_M_pinyin(zh, word, b1, b2, out) ==
    FallbackBranch_M(zh, word, b1, b2, out, TRUE, FALSE)

FallbackBranch_M_example(zh, word, b1, b2, out) ==
    FallbackBranch_M(zh, word, b1, b2, out, FALSE, TRUE)

\* mutant: a fallback success carries the GOOGLE tag of the failure paths
FallbackBranch_M_tag(zh, word, b1, b2, out) ==
    LET src == IF zh THEN "zh-CN" ELSE "vi"
        tgt == IF zh THEN "vi" ELSE "zh-CN"
        t   == GoogleTranslator_translate(word, src, tgt, b1, b2, out)
        tr  == t.ret.translated
        rec == IF zh
               THEN VocabularyData(word, <<>>, tr, word \o <<" - ">> \o Str(tr))
               ELSE VocabularyData(tr, <<>>, word, Str(tr) \o <<" - ">> \o word)
    IN  [calls |-> <<TranslateCall(word, src, tgt)>>,
         reqs |-> t.reqs,
         translation |-> t.ret,
         result |-> CASE t.ret.kind = "raise" -> FallbackException(t.ret.error)
                      [] t.ret.success ->
                            TranslationResult_to_dict(TRUE, GOOGLE, TRUE, rec, None)
                      [] OTHER -> FallbackFailure]

\* The two branches share their shape; zh tells which one runs.
FallbackBranch(zh, word, b1, b2, out) ==
    LET src == IF zh THEN "zh-CN" ELSE "vi"
        tgt == IF zh THEN "vi" ELSE "zh-CN"
        t   == GoogleTranslator_translate(word, src, tgt, b1, b2, out)
        tr  == t.ret.translated
        rec == IF zh
               THEN VocabularyData(word, <<>>, tr, word \o <<" - ">> \o Str(tr))
               ELSE VocabularyData(tr, <<>>, word, Str(tr) \o <<" - ">> \o word)
    IN  [calls |-> <<TranslateCall(word, src, tgt)>>,
         reqs |-> t.reqs,
         translation |-> t.ret,
         result |-> CASE t.ret.kind = "raise" -> FallbackException(t.ret.error)
                      [] t.ret.success ->
                            TranslationResult_to_dict(TRUE, FALLBACK, TRUE, rec, None)
                      [] OTHER -> FallbackFailure]

\* mutant: the two branches change places, vietnamese is looked at first
_use_google_fallback_M_viFirst(chinese, vietnamese, b1, b2, out) ==
    CASE Truthy(vietnamese) -> FallbackBranch(FALSE, vietnamese, b1, b2, out)
      [] Truthy(chinese) -> FallbackBranch(TRUE, chinese, b1, b2, out)
      [] OTHER -> [calls |-> <<>>, reqs |-> <<>>, translation |-> NoTranslation,
                   result |-> FallbackFailure]

_use_google_fallback(chinese, vietnamese, b1, b2, out) ==
    CASE Truthy(chinese) -> FallbackBranch(TRUE, chinese, b1, b2, out)
      [] Truthy(vietnamese) -> FallbackBranch(FALSE, vietnamese, b1, b2, out)
      [] OTHER -> [calls |-> <<>>, reqs |-> <<>>, translation |-> NoTranslation,
                   result |-> FallbackFailure]

-----------------------------------------------------------------------------
(* VocabularyAIHelper._build_prompt *)

_build_prompt(chinese, vietnamese) ==
    IF Truthy(chinese)
    THEN [about |-> "chinese", word |-> chinese]
    ELSE [about |-> "vietnamese", word |-> Str(vietnamese)]

-----------------------------------------------------------------------------
(* Reply texts of the primary provider, as token sequences *)

\* the three-backquote fence that opens or closes a code block
FENCE == "fence"
WS == "ws"

\* "key=value" tokens of a JSON object body and the pair each one denotes
FieldTokens == {"c=cong", "c=", "c=null", "p=cong2", "v=tu", "v=", "e=ex",
                "c=ni", "p=ni3", "v=ban"}

\* the ones the primary provider's replies are built from
ReplyFieldTokens == {"c=cong", "c=", "c=null", "p=cong2", "v=tu", "v=", "e=ex"}

\* a string value that holds the fence is spelled with three tokens:
\* "example": "a<fence>b"; FencedPair is the pair it denotes
STR_OPEN == "e=a<"
STR_CLOSE == ">b"
FencedString == <<STR_OPEN, FENCE, STR_CLOSE>>
FencedPair == "e=a<fence>b"

FieldKey(tok) ==
    CASE tok \in {"c=cong", "c=", "c=null", "c=ni"} -> "chinese"
      [] tok \in {"p=cong2", "p=ni3"} -> "pinyin"
      [] tok \in {"v=tu", "v=", "v=ban"} -> "vietnamese"
      [] OTHER -> "example"

FieldVal(tok) ==
    CASE tok = "c=cong" -> <<"cong">>
      [] tok = "c=null" -> None
      [] tok = "p=cong2" -> <<"cong2">>
      [] tok = "v=tu" -> <<"tu">>
      [] tok = "e=ex" -> <<"ex">>
      [] tok = "c=ni" -> <<"ni">>
      [] tok = "p=ni3" -> <<"ni3">>
      [] tok = "v=ban" -> <<"ban">>
      [] tok = FencedPair -> <<"a", FENCE, "b">>
      [] OTHER -> <<>>

\* str.strip(): drop leading and trailing whitespace
RECURSIVE LStrip(_)
LStrip(s) == IF s # <<>> /\ Head(s) = WS THEN LStrip(Tail(s)) ELSE s

RECURSIVE RStrip(_)
RStrip(s) ==
    IF s # <<>> /\ s[Len(s)] = WS THEN RStrip(SubSeq(s, 1, Len(s) - 1)) ELSE s

Strip(s) == RStrip(LStrip(s))

\* text.split(FENCE)[1] for a text that starts with the fence: what lies
\* between the first fence and the next one (or the end of the text)
RECURSIVE UpToFence(_)
UpToFence(s) ==
    IF s = <<>> \/ Head(s) = FENCE THEN <<>> ELSE <<Head(s)>> \o UpToFence(Tail(s))

SplitFence1(text) == UpToFence(Tail(text))

\* json.loads: an object is "{" fields "}", whitespace allowed around and
\* between the tokens; a repeated key keeps its last value.
JsonError == [kind |-> "error", fields |-> <<>>]
JsonOther == [kind |-> "other", fields |-> <<>>]

NoWS(s) == SelectSeq(s, LAMBDA t : t # WS)

\* the pairs between the braces, read left to right; ok = FALSE when a
\* token is no pair (a string that is cut before its end among them)
RECURSIVE JsonPairs(_)
JsonPairs(t) ==
    IF t = <<>> THEN [ok |-> TRUE, fields |-> <<>>]
    ELSE IF Len(t) >= 3 /\ SubSeq(t, 1, 3) = FencedString
    THEN LET r == JsonPairs(SubSeq(t, 4, Len(t)))
         IN  [ok |-> r.ok, fields |-> <<FencedPair>> \o r.fields]
    ELSE IF Head(t) \in FieldTokens
    THEN LET r == JsonPairs(Tail(t))
         IN  [ok |-> r.ok, fields |-> <<Head(t)>> \o r.fields]
    ELSE [ok |-> FALSE, fields |-> <<>>]

json_loads(text) ==
    LET t == NoWS(text)
        pairs == JsonPairs(SubSeq(t, 2, Len(t) - 1))
    IN  CASE Len(t) >= 2 /\ t[1] = "{" /\ t[Len(t)] = "}" /\ pairs.ok ->
                [kind |-> "object", fields |-> pairs.fields]
          [] t = <<"[]">> \/ t = <<"null">> -> JsonOther
          [] OTHER -> JsonError

\* dict.get(key, default) on a parsed object
DictHas(obj, key) == \E i \in 1..Len(obj.fields) : FieldKey(obj.fields[i]) = key

DictGet(obj, key, default) ==
    LET idx == {i \in 1..Len(obj.fields) : FieldKey(obj.fields[i]) = key}
    IN  IF idx = {} THEN default
        ELSE FieldVal(obj.fields[CHOOSE i \in idx : \A j \in idx : j <= i])

-----------------------------------------------------------------------------
(* VocabularyAIHelper._parse_ai_response *)

_parse_ai_response(text) ==
    IF text # <<>> /\ Head(text) = FENCE
    THEN LET inner  == SplitFence1(text)
             untag  == IF inner # <<>> /\ Head(inner) = "json"
                       THEN Tail(inner) ELSE inner
         IN  json_loads(Strip(untag))
    ELSE json_loads(text)

-----------------------------------------------------------------------------
(* The try body of get_vocabulary_info after the request returned           *)
(* (lines 186-202): ok = FALSE stands for an exception raised in it.        *)

\* mutant: a field the reply lacks is left empty, the input is not used
PrimaryOutcome_M_nodefault(chinese, vietnamese, content) ==
    LET parsed == _parse_ai_response(Strip(content))
    IN  CASE content = None -> [ok |-> FALSE, result |-> NoResult]
          [] parsed.kind # "object" -> [ok |-> FALSE, result |-> NoResult]
          [] OTHER ->
                [ok |-> TRUE,
                 result |-> TranslationResult_to_dict(TRUE, OPENAI, TRUE,
                    VocabularyData(
                        DictGet(parsed, "chinese", <<>>),
                        DictGet(parsed, "pinyin", <<>>),
                        DictGet(parsed, "vietnamese", <<>>),
                        DictGet(parsed, "example", <<>>)),
                    None)]

PrimaryOutcome(chinese, vietnamese, content) ==
    LET parsed == _parse_ai_response(Strip(content))
    IN  CASE content = None -> [ok |-> FALSE, result |-> NoResult]
          [] parsed.kind # "object" -> [ok |-> FALSE, result |-> NoResult]
          [] OTHER ->
                [ok |-> TRUE,
                 result |-> TranslationResult_to_dict(TRUE, OPENAI, TRUE,
                    VocabularyData(
                        DictGet(parsed, "chinese", PyOr(chinese, <<>>)),
                        DictGet(parsed, "pinyin", <<>>),
                        DictGet(parsed, "vietnamese", PyOr(vietnamese, <<>>)),
                        DictGet(parsed, "example", <<>>)),
                    None)]

-----------------------------------------------------------------------------
(* Inputs and provider behaviours the model draws from *)

\* longest JSON object body (in fields) the primary provider replies with
MaxFields == 2

Words_zh == {None, <<>>, <<"nihao">>}
Words_vi == {None, <<>>, <<"xinchao">>}

FieldSeqs == UNION {[1..n -> ReplyFieldTokens] : n \in 0..MaxFields}

ObjectBodies == {<<"{">> \o fs \o <<"}">> : fs \in FieldSeqs}

OtherBodies == {<<"[]">>, <<"null">>, <<"garbage">>, <<>>, <<"{">>}

Wrappings == {"bare", "padded", "fence", "fence-json", "fence-py"}

Wrap(body, w) ==
    CASE w = "padded" -> <<WS>> \o body \o <<WS>>
      [] w = "fence" -> <<FENCE, WS>> \o body \o <<WS, FENCE>>
      [] w = "fence-json" -> <<FENCE, "json", WS>> \o body \o <<WS, FENCE>>
      [] w = "fence-py" -> <<FENCE, "py", WS>> \o body \o <<WS, FENCE>>
      [] OTHER -> body

\* message.content of a primary reply: None or a text
Contents ==
    {None} \cup {Wrap(b, w) : b \in ObjectBodies \cup OtherBodies, w \in Wrappings}

NoReply == [kind |-> "none", content |-> None]
ReplyRaise == [kind |-> "raise", content |-> None]
ReplyContent(c) == [kind |-> "content", content |-> c]

-----------------------------------------------------------------------------
(* VocabularyAIHelper: construction and get_vocabulary_info *)

\* VocabularyAIHelper.__init__: a fresh helper; api_key comes from the
\* argument or the environment and may be absent.
VocabularyAIHelper_init ==
    /\ h_pc = "idle"
    /\ \E key \in BOOLEAN : h_api_key' = key
    /\ h_client' = FALSE
    /\ h_construct' = "none"
    /\ UNCHANGED <<h_pc, h_chinese, h_vietnamese, h_reply, h_primaryReqs,
                   h_primaryFailed, h_translateCalls, h_backendReqs,
                   h_translation, h_result>>
    /\ UNCHANGED <<e_vars, g_vars, p_vars, v_vars>>

\* get_vocabulary_info is entered (the signature is written twice in the
\* source, lines 134-138 and 139-143; it is read as one definition)
HCall ==
    /\ h_pc = "idle"
    /\ \E c \in Words_zh, v \in Words_vi :
          /\ h_chinese' = c
          /\ h_vietnamese' = v
    /\ h_pc' = "client"
    /\ h_reply' = NoReply
    /\ h_primaryReqs' = <<>>
    /\ h_primaryFailed' = FALSE
    /\ h_translateCalls' = <<>>
    /\ h_backendReqs' = <<>>
    /\ h_translation' = NoTranslation
    /\ h_result' = NoResult
    /\ h_construct' = "none"
    /\ UNCHANGED <<h_api_key, h_client>>
    /\ UNCHANGED <<e_vars, g_vars, p_vars, v_vars>>

\* mutant: the client is constructed whether or not there is a key
ClientAfter_M_nokey(client, api_key, constructed) ==
    IF ~client THEN constructed ELSE client

\* the client property: construct lazily; a construction error is logged
\* and leaves _client None
ClientAfter(client, api_key, constructed) ==
    IF ~client /\ api_key THEN constructed ELSE client

\* whether OpenAI(...) was called by this read, and what it did
Construction(client, api_key, constructed) ==
    IF ~client /\ api_key
    THEN (IF constructed THEN "ok" ELSE "raise")
    ELSE "none"

\* mutant: the check of line 161 is missing, the request is issued anyway
HClient_M_nocheck ==
    /\ h_pc = "client"
    /\ \E constructed \in BOOLEAN :
          /\ h_client' = ClientAfter(h_client, h_api_key, constructed)
          /\ h_construct' = Construction(h_client, h_api_key, constructed)
    /\ h_pc' = "request"
    /\ UNCHANGED <<h_api_key, h_chinese, h_vietnamese, h_reply, h_primaryReqs,
                   h_primaryFailed, h_translateCalls, h_backendReqs,
                   h_translation, h_result>>
    /\ UNCHANGED <<e_vars, g_vars, p_vars, v_vars>>

\* line 161: if not self.client -> fallback, else the try block
HClient ==
    /\ h_pc = "client"
    /\ \E constructed \in BOOLEAN :
          /\ h_client' = ClientAfter(h_client, h_api_key, constructed)
          /\ h_construct' = Construction(h_client, h_api_key, constructed)
          /\ h_pc' = IF h_client' THEN "request" ELSE "fallback"
    /\ UNCHANGED <<h_api_key, h_chinese, h_vietnamese, h_reply, h_primaryReqs,
                   h_primaryFailed, h_translateCalls, h_backendReqs,
                   h_translation, h_result>>
    /\ UNCHANGED <<e_vars, g_vars, p_vars, v_vars>>

\* lines 167-183: build the prompt and issue the one request; it raises
\* (except Exception -> fallback) or returns a reply
HRequest ==
    /\ h_pc = "request"
    /\ h_primaryReqs' = Append(h_primaryReqs, _build_prompt(h_chinese, h_vietnamese))
    /\ \/ /\ h_reply' = ReplyRaise
          /\ h_primaryFailed' = TRUE
          /\ h_pc' = "fallback"
       \/ /\ \E c \in Contents : h_reply' = ReplyContent(c)
          /\ h_primaryFailed' = FALSE
          /\ h_pc' = "parse"
    /\ UNCHANGED <<h_construct, h_api_key, h_client, h_chinese, h_vietnamese,
                   h_translateCalls, h_backendReqs, h_translation, h_result>>
    /\ UNCHANGED <<e_vars, g_vars, p_vars, v_vars>>

\* lines 186-210: parse the reply and return the generative outcome, or
\* enter an except clause, which hands over to the fallback
HParse ==
    /\ h_pc = "parse"
    /\ LET out == PrimaryOutcome(h_chinese, h_vietnamese, h_reply.content)
       IN  IF out.ok
           THEN /\ h_result' = out.result
                /\ h_pc' = "done"
                /\ UNCHANGED h_primaryFailed
           ELSE /\ h_primaryFailed' = TRUE
                /\ h_pc' = "fallback"
                /\ UNCHANGED h_result
    /\ UNCHANGED <<h_construct, h_api_key, h_client, h_chinese, h_vietnamese, h_reply,
                   h_primaryReqs, h_translateCalls, h_backendReqs, h_translation>>
    /\ UNCHANGED <<e_vars, g_vars, p_vars, v_vars>>

\* return self._use_google_fallback(chinese, vietnamese), from line 163,
\* 206 or 210
HFallback ==
    /\ h_pc = "fallback"
    /\ \E b1 \in BackendModes, b2 \in BackendModes, out \in Translations :
          LET f == _use_google_fallback(h_chinese, h_vietnamese, b1, b2, out)
          IN  /\ h_translateCalls' = h_translateCalls \o f.calls
              /\ h_backendReqs' = h_backendReqs \o f.reqs
              /\ h_translation' = f.translation
              /\ h_result' = f.result
    /\ h_pc' = "done"
    /\ UNCHANGED <<h_construct, h_api_key, h_client, h_chinese, h_vietnamese, h_reply,
                   h_primaryReqs, h_primaryFailed>>
    /\ UNCHANGED <<e_vars, g_vars, p_vars, v_vars>>

\* the caller has the outcome; the helper can be called again
HReturn ==
    /\ h_pc = "done"
    /\ h_pc' = "idle"
    /\ UNCHANGED <<h_construct, h_api_key, h_client, h_chinese, h_vietnamese, h_reply,
                   h_primaryReqs, h_primaryFailed, h_translateCalls,
                   h_backendReqs, h_translation, h_result>>
    /\ UNCHANGED <<e_vars, g_vars, p_vars, v_vars>>

HInit ==
    /\ h_api_key \in BOOLEAN
    /\ h_client = FALSE
    /\ h_pc = "idle"
    /\ h_chinese = None
    /\ h_vietnamese = None
    /\ h_reply = NoReply
    /\ h_primaryReqs = <<>>
    /\ h_primaryFailed = FALSE
    /\ h_translateCalls = <<>>
    /\ h_backendReqs = <<>>
    /\ h_translation = NoTranslation
    /\ h_result = NoResult
    /\ h_construct = "none"

HNext ==
    \/ VocabularyAIHelper_init
    \/ HCall
    \/ HClient
    \/ HRequest
    \/ HParse
    \/ HFallback
    \/ HReturn

-----------------------------------------------------------------------------
(* Properties of get_vocabulary_info *)

\* the primary reply parses, as the code parses it, to a JSON object
ReplyIsJsonObject(reply) ==
    /\ reply.kind = "content"
    /\ reply.content # None
    /\ _parse_ai_response(Strip(reply.content)).kind = "object"

\* a request was issued and it raised, or its reply is not a JSON object
PrimaryUnusable ==
    /\ h_primaryReqs # <<>>
    /\ h_reply.kind \in {"raise", "content"}
    /\ ~ReplyIsJsonObject(h_reply)

TranslationSucceeded == h_translation.kind = "dict" /\ h_translation.success

\* the record the fallback builds from the input and the translated text
FallbackRecord ==
    LET tr == h_translation.translated
    IN  IF Truthy(h_chinese)
        THEN [chinese |-> h_chinese, pinyin |-> <<>>, vietnamese |-> tr,
              example_sentence |-> h_chinese \o <<" - ">> \o Str(tr)]
        ELSE [chinese |-> tr, pinyin |-> <<>>, vietnamese |-> h_vietnamese,
              example_sentence |-> Str(tr) \o <<" - ">> \o h_vietnamese]

\* C1: when a client is available and the primary request raises or its
\* reply is not a JSON object, and the Google translation succeeds, the call
\* returns a success outcome tagged FALLBACK whose record is the fallback's.
C1_FallbackAfterPrimaryFailure ==
    (h_pc = "done" /\ PrimaryUnusable /\ TranslationSucceeded)
        => /\ h_result.kind = "return"
           /\ h_result.success
           /\ h_result.method = FALLBACK
           /\ h_result.hasData
           /\ h_result.data = FallbackRecord
           /\ ~h_result.hasError

C1_Witness ==
    /\ h_pc = "done"
    /\ PrimaryUnusable
    /\ h_reply.kind = "content"
    /\ h_reply.content # None
    /\ TranslationSucceeded
    /\ h_result.success

\* C2: get_vocabulary_info always returns an outcome and never lets an
\* exception out; when neither the primary nor the fallback succeeded the
\* outcome has success = FALSE and carries an error text.
C2_NeverRaises ==
    /\ h_result.kind # "raise"
    /\ h_pc = "done" => h_result.kind = "return"
    /\ (h_pc = "done" /\ ~ReplyIsJsonObject(h_reply) /\ ~TranslationSucceeded)
          => /\ ~h_result.success
             /\ h_result.hasError
             /\ Truthy(h_result.error)

C2_Witness ==
    /\ h_pc = "done"
    /\ PrimaryUnusable
    /\ h_translation.kind = "raise"
    /\ h_result.kind = "return"
    /\ ~h_result.success

\* C3: the translation is called only when no client is available (and
\* then no primary request was issued) or after the primary attempt failed;
\* a primary success returns the OPENAI outcome with no translation request.
C3_FallbackOnlyAfterPrimary ==
    /\ [][Len(h_translateCalls') > Len(h_translateCalls)
            => /\ (~h_client /\ h_primaryReqs = <<>>) \/ h_primaryFailed
               /\ h_primaryReqs' = h_primaryReqs]_vars
    /\ [](h_pc \in {"request", "parse", "fallback", "done"} /\ ~h_client
            => h_primaryReqs = <<>> /\ h_pc \in {"fallback", "done"})
    /\ [](h_pc = "done" /\ ReplyIsJsonObject(h_reply)
            => /\ h_result.success
               /\ h_result.method = OPENAI
               /\ h_translateCalls = <<>>
               /\ h_backendReqs = <<>>)

C3_Witness ==
    /\ h_pc = "done"
    /\ ~h_client
    /\ h_primaryReqs = <<>>
    /\ Len(h_translateCalls) = 1

\* C4: one call issues at most one primary request and at most one
\* translation request; neither step is attempted again after it failed.
C4_SingleAttempt ==
    /\ Len(h_primaryReqs) <= 1
    /\ Len(h_translateCalls) <= 1
    /\ Len(h_backendReqs) <= 1

C4_Witness ==
    /\ h_pc = "done"
    /\ h_reply.kind = "raise"
    /\ Len(h_primaryReqs) = 1
    /\ Len(h_backendReqs) = 1
    /\ h_translation.kind = "raise"

\* C5: with at least one of chinese / vietnamese non-empty on input, every
\* success outcome has a record whose chinese and vietnamese are both
\* non-empty strings, whatever the provider replied.
C5_SuccessRecordComplete ==
    (h_pc = "done" /\ (Truthy(h_chinese) \/ Truthy(h_vietnamese)) /\ h_result.success)
        => Truthy(h_result.data.chinese) /\ Truthy(h_result.data.vietnamese)

\* a success outcome that _use_google_fallback built
FallbackSuccess ==
    /\ h_result.kind = "return"
    /\ h_result.success
    /\ h_translateCalls # <<>>

\* C11: every success outcome of the fallback path, in either direction, has
\* a record whose pinyin is the empty string.
C11_FallbackPinyinEmpty ==
    FallbackSuccess => h_result.hasData /\ h_result.data.pinyin = <<>>

C11_Witness ==
    /\ h_pc = "done"
    /\ FallbackSuccess
    /\ ~Truthy(h_chinese)
    /\ h_translateCalls[1].target = "zh-CN"
    /\ h_result.data.chinese = <<"xinchao">>

\* C12: a fallback success for an input with chinese set keeps chinese as
\* given, takes vietnamese from the translator and has the example
\* "<chinese> - <translated>"; with only vietnamese set, vietnamese is kept,
\* chinese is the translator's text and the example "<translated> - <vietnamese>".
C12_FallbackRecordFields ==
    FallbackSuccess =>
        LET tr == h_translation.translated
        IN  IF Truthy(h_chinese)
            THEN /\ h_result.data.chinese = h_chinese
                 /\ h_result.data.vietnamese = tr
                 /\ h_result.data.example_sentence = h_chinese \o <<" - ">> \o Str(tr)
            ELSE /\ h_result.data.vietnamese = h_vietnamese
                 /\ h_result.data.chinese = tr
                 /\ h_result.data.example_sentence = Str(tr) \o <<" - ">> \o h_vietnamese

C12_Witness ==
    /\ h_pc = "done"
    /\ FallbackSuccess
    /\ h_chinese = <<"nihao">>
    /\ h_result.data.vietnamese = <<"xinchao">>
    /\ h_result.data.example_sentence = <<"nihao", " - ", "xinchao">>

\* the one translation request the input asks for
ExpectedTranslateCall ==
    IF Truthy(h_chinese)
    THEN [text |-> h_chinese, source |-> "zh-CN", target |-> "vi"]
    ELSE [text |-> h_vietnamese, source |-> "vi", target |-> "zh-CN"]

\* C13: the fallback translates chinese from zh-CN to vi when chinese is
\* non-empty, otherwise vietnamese from vi to zh-CN when that is non-empty,
\* never to the target "auto"; with both given chinese wins, for the primary
\* prompt and for the fallback, and exactly one direction is requested.
C13_FallbackDirection ==
    /\ Len(h_translateCalls) <= 1
    /\ \A i \in 1..Len(h_translateCalls) :
          /\ h_translateCalls[i] = ExpectedTranslateCall
          /\ h_translateCalls[i].target # "auto"
    /\ \A i \in 1..Len(h_backendReqs) :
          /\ h_backendReqs[i].text = ExpectedTranslateCall.text
          /\ h_backendReqs[i].source = ExpectedTranslateCall.source
          /\ h_backendReqs[i].target = ExpectedTranslateCall.target
    /\ (h_pc = "done" /\ h_result.method # OPENAI
            /\ (Truthy(h_chinese) \/ Truthy(h_vietnamese)))
          => Len(h_translateCalls) = 1
    /\ \A i \in 1..Len(h_primaryReqs) :
          h_primaryReqs[i] =
            IF Truthy(h_chinese)
            THEN [about |-> "chinese", word |-> h_chinese]
            ELSE [about |-> "vietnamese", word |-> Str(h_vietnamese)]

C13_Witness ==
    /\ h_pc = "done"
    /\ Truthy(h_chinese) /\ Truthy(h_vietnamese)
    /\ Len(h_primaryReqs) = 1
    /\ h_primaryReqs[1].about = "chinese"
    /\ Len(h_translateCalls) = 1
    /\ h_translateCalls[1].source = "zh-CN"
    /\ Len(h_backendReqs) = 1

\* the fallback ran and the translation step did not deliver a text
TranslationFailed ==
    /\ h_translateCalls # <<>>
    /\ \/ h_translation.kind = "raise"
       \/ h_translation.kind = "dict" /\ ~h_translation.success

\* s ends with the text t
EndsWith(s, t) ==
    /\ Len(t) <= Len(s)
    /\ SubSeq(s, Len(s) - Len(t) + 1, Len(s)) = t

\* C14: the fallback returns a failure outcome whenever the translation call
\* errors or hands back no usable text (absent or empty); a success outcome is
\* never built from an absent or empty translation.
C14_NoSuccessWithoutTranslation ==
    (h_pc = "done" /\ h_translateCalls # <<>>
        /\ (TranslationFailed \/ ~Truthy(h_translation.translated)))
        => h_result.kind = "return" /\ ~h_result.success

\* C15: when the fallback translation fails, the error text of the
\* translation step is the error of the returned outcome, word for word, when
\* the backend raised and when translate returned a failure with its own text.
C15_TranslationErrorVerbatim ==
    (h_pc = "done" /\ TranslationFailed)
        => /\ h_result.hasError
           /\ EndsWith(h_result.error, h_translation.error)

\* C16: every outcome carries one of two tags; a success is tagged OPENAI
\* exactly when its record came from the primary path, and every failure
\* carries the tag a fallback success carries.
C16_TwoMethodTags ==
    h_pc = "done"
        => /\ h_result.method \in {OPENAI, FALLBACK}
           /\ h_result.success
                 => (h_result.method = OPENAI <=> h_translateCalls = <<>>)
           /\ ~h_result.success => h_result.method = FALLBACK

\* the "key=value" pairs of the reply's object, whatever wraps it
ReplyFields == SelectSeq(h_reply.content, LAMBDA t : t \in FieldTokens)

ReplyHas(key) == \E i \in 1..Len(ReplyFields) : FieldKey(ReplyFields[i]) = key

\* the value of the last pair with this key
ReplyValue(key) ==
    LET idx == {i \in 1..Len(ReplyFields) : FieldKey(ReplyFields[i]) = key}
        last == CHOOSE i \in idx : \A j \in idx : j <= i
    IN  FieldVal(ReplyFields[last])

\* C17: a reply that parses to an object lacking some of the four fields
\* still gives the OPENAI success outcome, without fallback: chinese and
\* vietnamese default to the input when supplied, else to "", pinyin and
\* example to ""; fields of the reply are taken from the reply.
C17_MissingFieldsBackfilled ==
    (h_pc = "done" /\ ReplyIsJsonObject(h_reply))
        => /\ h_result.kind = "return"
           /\ h_result.success
           /\ h_result.method = OPENAI
           /\ h_translateCalls = <<>>
           /\ h_result.data.chinese =
                IF ReplyHas("chinese") THEN ReplyValue("chinese")
                ELSE IF Truthy(h_chinese) THEN h_chinese ELSE <<>>
           /\ h_result.data.vietnamese =
                IF ReplyHas("vietnamese") THEN ReplyValue("vietnamese")
                ELSE IF Truthy(h_vietnamese) THEN h_vietnamese ELSE <<>>
           /\ h_result.data.pinyin =
                IF ReplyHas("pinyin") THEN ReplyValue("pinyin") ELSE <<>>
           /\ h_result.data.example_sentence =
                IF ReplyHas("example") THEN ReplyValue("example") ELSE <<>>

C17_Witness ==
    /\ h_pc = "done"
    /\ ReplyIsJsonObject(h_reply)
    /\ ReplyFields = <<"p=cong2">>
    /\ h_chinese = <<"nihao">>
    /\ h_vietnamese = None
    /\ h_result.data.chinese = <<"nihao">>
    /\ h_result.data.vietnamese = <<>>
    /\ h_result.data.pinyin = <<"cong2">>

-----------------------------------------------------------------------------
(* ChineseAIEngine: values *)

\* most tool calls one reply of the provider carries
MaxToolCalls == 2

\* most lines the vocabulary file holds when a translate call starts
MaxLog == 1

SYSTEM_PROMPT == <<"system_prompt">>
PLACEHOLDER == <<"Khong co ket qua">>
SAVE_VOCABULARY == "save_vocabulary"

Turn(role, content, tool_calls, tool_call_id) ==
    [role |-> role, content |-> content, tool_calls |-> tool_calls,
     tool_call_id |-> tool_call_id]

\* mutant: the result turn does not carry the request's id
ToolTurn_M_noid(id, content) == Turn("tool", content, <<>>, 0)

\* lines 215-221 and 225-231: {"role": "tool", "tool_call_id", "content"}
ToolTurn(id, content) == Turn("tool", content, <<>>, id)

\* function.arguments texts the provider sends: two complete objects, one
\* without "vietnamese", one that is no JSON ({chinese: cong}), one array
ArgTexts ==
    {<<"{", "c=cong", "p=cong2", "v=tu", "}">>,
     <<"{", "p=ni3", "v=ban", "c=ni", "}">>,
     <<"{", "c=cong", "p=cong2", "}">>,
     <<"{", "chinese: cong", "}">>,
     <<"[]">>}

FunctionNames == {SAVE_VOCABULARY, "luu_tu_vung"}

\* tool_calls of a reply: ids are the positions in the list
ToolCallLists ==
    UNION {[1..n -> [name : FunctionNames, arguments : ArgTexts]] : n \in 0..MaxToolCalls}

WithIds(calls) ==
    [i \in 1..Len(calls) |->
        [id |-> i, name |-> calls[i].name, arguments |-> calls[i].arguments]]

ReplyTexts == {None, <<>>, <<"reply">>}

ProviderErrors == {<<"timeout">>, <<"auth">>}

NoMessage == [kind |-> "none", content |-> None, tool_calls |-> <<>>, error |-> None]
MessageRaise(err) == [kind |-> "raise", content |-> None, tool_calls |-> <<>>, error |-> err]
Message(content, tool_calls) ==
    [kind |-> "reply", content |-> content, tool_calls |-> tool_calls, error |-> None]

Request(messages, tools, tool_choice) ==
    [messages |-> messages, tools |-> tools, tool_choice |-> tool_choice]

NoReturn == [kind |-> "none", failure |-> FALSE, text |-> None]
Return(text) == [kind |-> "return", failure |-> FALSE, text |-> text]

\* mutant: the except clause of translate raises again
TranslateFailure_M_raise(err) ==
    [kind |-> "raise", failure |-> TRUE, text |-> Str(err)]

\* lines 249-251: except Exception -> the failure text is returned
TranslateFailure(err) ==
    [kind |-> "return", failure |-> TRUE,
     text |-> <<"X Loi ket noi OpenAI: ">> \o Str(err)]

-----------------------------------------------------------------------------
(* ChineseAIEngine.save_vocabulary *)

SaveArgs(chinese, pinyin, vietnamese) ==
    [chinese |-> chinese, pinyin |-> pinyin, vietnamese |-> vietnamese]

\* mutant: the file is opened with mode "w", earlier lines are lost
save_vocabulary_M_truncate(file, chinese, pinyin, vietnamese, io) ==
    IF io
    THEN [file |-> <<Str(chinese) \o <<" (">> \o Str(pinyin)
                        \o <<") : ">> \o Str(vietnamese)>>,
          result |-> <<"V Da luu: ">> \o Str(chinese) \o <<" (">> \o Str(pinyin) \o <<")">>]
    ELSE [file |-> file, result |-> <<"X Loi ghi file: ", "io error">>]

\* io = FALSE: open or write raises; the error is returned as text
save_vocabulary(file, chinese, pinyin, vietnamese, io) ==
    IF io
    THEN [file |-> Append(file, Str(chinese) \o <<" (">> \o Str(pinyin)
                                \o <<") : ">> \o Str(vietnamese)),
          result |-> <<"V Da luu: ">> \o Str(chinese) \o <<" (">> \o Str(pinyin) \o <<")">>]
    ELSE [file |-> file, result |-> <<"X Loi ghi file: ", "io error">>]

-----------------------------------------------------------------------------
(* ChineseAIEngine.translate: the body of the for loop, lines 204-231 *)

\* mutant: pinyin and vietnamese change places in the call of line 209
ToolCallStep_M_swap(tool_call, file, io) ==
    LET args == json_loads(tool_call.arguments)
    IN  CASE args.kind = "error" ->
                [saves |-> <<>>, file |-> file,
                 turn |-> ToolTurn(tool_call.id, <<"Error: ", "JSONDecodeError">>)]
          [] tool_call.name # SAVE_VOCABULARY ->
                [saves |-> <<>>, file |-> file,
                 turn |-> ToolTurn(tool_call.id, <<"Unknown function: ", tool_call.name>>)]
          [] args.kind # "object" ->
                [saves |-> <<>>, file |-> file,
                 turn |-> ToolTurn(tool_call.id, <<"Error: ", "TypeError">>)]
          [] \E k \in {"chinese", "pinyin", "vietnamese"} : ~DictHas(args, k) ->
                [saves |-> <<>>, file |-> file,
                 turn |-> ToolTurn(tool_call.id, <<"Error: ", "KeyError">>)]
          [] OTHER ->
                LET c == DictGet(args, "chinese", None)
                    q == DictGet(args, "vietnamese", None)
                    v == DictGet(args, "pinyin", None)
                    r == save_vocabulary(file, c, q, v, io)
                IN  [saves |-> <<SaveArgs(c, q, v)>>, file |-> r.file,
                     turn |-> ToolTurn(tool_call.id, r.result)]

\* mutant: the name of the function is not looked at
ToolCallStep_M_anyname(tool_call, file, io) ==
    LET args == json_loads(tool_call.arguments)
    IN  CASE args.kind = "error" ->
                [saves |-> <<>>, file |-> file,
                 turn |-> ToolTurn(tool_call.id, <<"Error: ", "JSONDecodeError">>)]
          [] args.kind # "object" ->
                [saves |-> <<>>, file |-> file,
                 turn |-> ToolTurn(tool_call.id, <<"Error: ", "TypeError">>)]
          [] \E k \in {"chinese", "pinyin", "vietnamese"} : ~DictHas(args, k) ->
                [saves |-> <<>>, file |-> file,
                 turn |-> ToolTurn(tool_call.id, <<"Error: ", "KeyError">>)]
          [] OTHER ->
                LET c == DictGet(args, "chinese", None)
                    q == DictGet(args, "pinyin", None)
                    v == DictGet(args, "vietnamese", None)
                    r == save_vocabulary(file, c, q, v, io)
                IN  [saves |-> <<SaveArgs(c, q, v)>>, file |-> r.file,
                     turn |-> ToolTurn(tool_call.id, r.result)]

\* json.loads comes first, whatever the name; then the name is looked at;
\* the three subscripts are evaluated before save_vocabulary is called
ToolCallStep(tool_call, file, io) ==
    LET args == json_loads(tool_call.arguments)
    IN  CASE args.kind = "error" ->
                [saves |-> <<>>, file |-> file,
                 turn |-> ToolTurn(tool_call.id, <<"Error: ", "JSONDecodeError">>)]
          [] tool_call.name # SAVE_VOCABULARY ->
                [saves |-> <<>>, file |-> file,
                 turn |-> ToolTurn(tool_call.id, <<"Unknown function: ", tool_call.name>>)]
          [] args.kind # "object" ->
                [saves |-> <<>>, file |-> file,
                 turn |-> ToolTurn(tool_call.id, <<"Error: ", "TypeError">>)]
          [] \E k \in {"chinese", "pinyin", "vietnamese"} : ~DictHas(args, k) ->
                [saves |-> <<>>, file |-> file,
                 turn |-> ToolTurn(tool_call.id, <<"Error: ", "KeyError">>)]
          [] OTHER ->
                LET c == DictGet(args, "chinese", None)
                    q == DictGet(args, "pinyin", None)
                    v == DictGet(args, "vietnamese", None)
                    r == save_vocabulary(file, c, q, v, io)
                IN  [saves |-> <<SaveArgs(c, q, v)>>, file |-> r.file,
                     turn |-> ToolTurn(tool_call.id, r.result)]

-----------------------------------------------------------------------------
(* ChineseAIEngine: construction and translate *)

Texts == {<<"nihao">>}

\* ChineseAIEngine.__init__ (chay_gia_su builds one per request)
ChineseAIEngine_init ==
    /\ e_pc = "idle"
    /\ \E key \in BOOLEAN : e_api_key' = key
    /\ e_client' = FALSE
    /\ UNCHANGED <<e_pc, e_messages, e_requests, e_message, e_final, e_idx,
                   e_saves, e_file, e_result>>
    /\ UNCHANGED <<h_vars, g_vars, p_vars, v_vars>>

\* translate is entered: lines 180-183
ECall ==
    /\ e_pc = "idle"
    /\ Len(e_file) <= MaxLog
    /\ \E text \in Texts :
          e_messages' = <<Turn("system", SYSTEM_PROMPT, <<>>, 0),
                          Turn("user", text, <<>>, 0)>>
    /\ e_pc' = "client"
    /\ e_requests' = <<>>
    /\ e_message' = NoMessage
    /\ e_final' = NoMessage
    /\ e_idx' = 1
    /\ e_saves' = <<>>
    /\ e_result' = NoReturn
    /\ UNCHANGED <<e_api_key, e_client, e_file>>
    /\ UNCHANGED <<h_vars, g_vars, p_vars, v_vars>>

\* mutant: the ValueError of a missing key leaves translate
EClient_M_raise ==
    /\ e_pc = "client"
    /\ \/ /\ e_client
          /\ e_pc' = "request1"
          /\ UNCHANGED <<e_client, e_result>>
       \/ /\ ~e_client /\ ~e_api_key
          /\ e_result' = TranslateFailure_M_raise(<<"API key khong ton tai">>)
          /\ e_pc' = "done"
          /\ UNCHANGED e_client
       \/ /\ ~e_client /\ e_api_key
          /\ \/ /\ e_client' = TRUE
                /\ e_pc' = "request1"
                /\ UNCHANGED e_result
             \/ /\ e_result' = TranslateFailure(<<"client construction error">>)
                /\ e_pc' = "done"
                /\ UNCHANGED e_client
    /\ UNCHANGED <<e_api_key, e_messages, e_requests, e_message, e_final,
                   e_idx, e_saves, e_file>>
    /\ UNCHANGED <<h_vars, g_vars, p_vars, v_vars>>

\* the client property, read at line 188: no key -> ValueError, a
\* construction error is raised again; both end in the except of line 249
EClient ==
    /\ e_pc = "client"
    /\ \/ /\ e_client
          /\ e_pc' = "request1"
          /\ UNCHANGED <<e_client, e_result>>
       \/ /\ ~e_client /\ ~e_api_key
          /\ e_result' = TranslateFailure(<<"API key khong ton tai">>)
          /\ e_pc' = "done"
          /\ UNCHANGED e_client
       \/ /\ ~e_client /\ e_api_key
          /\ \/ /\ e_client' = TRUE
                /\ e_pc' = "request1"
                /\ UNCHANGED e_result
             \/ /\ e_result' = TranslateFailure(<<"client construction error">>)
                /\ e_pc' = "done"
                /\ UNCHANGED e_client
    /\ UNCHANGED <<e_api_key, e_messages, e_requests, e_message, e_final,
                   e_idx, e_saves, e_file>>
    /\ UNCHANGED <<h_vars, g_vars, p_vars, v_vars>>

\* mutant: an empty content is returned as it is
DirectResult_M_raw(content) == Return(content)

\* line 245: result = message.content or "Khong co ket qua"
DirectResult(content) == Return(PyOr(content, PLACEHOLDER))

\* lines 188-201 and 244-247: the first request, with the tools schema
ERequest1 ==
    /\ e_pc = "request1"
    /\ e_requests' = Append(e_requests, Request(e_messages, TRUE, "auto"))
    /\ \/ \E err \in ProviderErrors :
             /\ e_message' = MessageRaise(err)
             /\ e_result' = TranslateFailure(err)
             /\ e_pc' = "done"
             /\ UNCHANGED e_messages
       \/ \E content \in ReplyTexts, calls \in ToolCallLists :
             LET message == Message(content, WithIds(calls))
             IN  /\ e_message' = message
                 /\ IF message.tool_calls # <<>>
                    THEN /\ e_messages' = Append(e_messages,
                                Turn("assistant", content, message.tool_calls, 0))
                         /\ e_pc' = "tools"
                         /\ UNCHANGED e_result
                    ELSE /\ e_result' = DirectResult(content)
                         /\ e_pc' = "done"
                         /\ UNCHANGED e_messages
    /\ UNCHANGED <<e_api_key, e_client, e_final, e_idx, e_saves, e_file>>
    /\ UNCHANGED <<h_vars, g_vars, p_vars, v_vars>>

\* mutant: the try of line 204 is missing; bad arguments end translate in
\* the except of line 249
EToolCall_M_noinnertry ==
    /\ e_pc = "tools"
    /\ e_idx <= Len(e_message.tool_calls)
    /\ \E io \in BOOLEAN :
          LET step == ToolCallStep(e_message.tool_calls[e_idx], e_file, io)
          IN  IF Head(step.turn.content) = "Error: "
              THEN /\ e_result' = TranslateFailure(step.turn.content)
                   /\ e_pc' = "done"
                   /\ UNCHANGED <<e_saves, e_file, e_messages, e_idx>>
              ELSE /\ e_saves' = e_saves \o step.saves
                   /\ e_file' = step.file
                   /\ e_messages' = Append(e_messages, step.turn)
                   /\ e_idx' = e_idx + 1
                   /\ e_pc' = IF e_idx' > Len(e_message.tool_calls)
                              THEN "request2" ELSE "tools"
                   /\ UNCHANGED e_result
    /\ UNCHANGED <<e_api_key, e_client, e_requests, e_message, e_final>>
    /\ UNCHANGED <<h_vars, g_vars, p_vars, v_vars>>

\* lines 203-231: one pass of the for loop
EToolCall ==
    /\ e_pc = "tools"
    /\ e_idx <= Len(e_message.tool_calls)
    /\ \E io \in BOOLEAN :
          LET step == ToolCallStep(e_message.tool_calls[e_idx], e_file, io)
          IN  /\ e_saves' = e_saves \o step.saves
              /\ e_file' = step.file
              /\ e_messages' = Append(e_messages, step.turn)
    /\ e_idx' = e_idx + 1
    /\ e_pc' = IF e_idx' > Len(e_message.tool_calls) THEN "request2" ELSE "tools"
    /\ UNCHANGED <<e_api_key, e_client, e_requests, e_message, e_final, e_result>>
    /\ UNCHANGED <<h_vars, g_vars, p_vars, v_vars>>

\* what the second reply may carry: the code does not look at tool_calls
FinalToolCallLists ==
    {<<>>, <<[name |-> SAVE_VOCABULARY,
              arguments |-> <<"{", "c=cong", "p=cong2", "v=tu", "}">>]>>}

\* mutant: the second request carries the tools schema again
SecondRequest_M_tools(messages) == Request(messages, TRUE, "auto")

\* lines 234-238: messages only, no tools, no tool_choice
SecondRequest(messages) == Request(messages, FALSE, "")

\* lines 234-242: the second request; its content is returned as it is
ERequest2 ==
    /\ e_pc = "request2"
    /\ e_requests' = Append(e_requests, SecondRequest(e_messages))
    /\ \/ \E err \in ProviderErrors :
             /\ e_final' = MessageRaise(err)
             /\ e_result' = TranslateFailure(err)
       \/ \E content \in ReplyTexts, calls \in FinalToolCallLists :
             /\ e_final' = Message(content, WithIds(calls))
             /\ e_result' = Return(content)
    /\ e_pc' = "done"
    /\ UNCHANGED <<e_api_key, e_client, e_messages, e_message, e_idx, e_saves,
                   e_file>>
    /\ UNCHANGED <<h_vars, g_vars, p_vars, v_vars>>

\* the caller has the reply; messages is dropped with the frame
EReturn ==
    /\ e_pc = "done"
    /\ e_pc' = "idle"
    /\ UNCHANGED <<e_api_key, e_client, e_messages, e_requests, e_message,
                   e_final, e_idx, e_saves, e_file, e_result>>
    /\ UNCHANGED <<h_vars, g_vars, p_vars, v_vars>>

EInit ==
    /\ e_api_key \in BOOLEAN
    /\ e_client = FALSE
    /\ e_pc = "idle"
    /\ e_messages = <<>>
    /\ e_requests = <<>>
    /\ e_message = NoMessage
    /\ e_final = NoMessage
    /\ e_idx = 1
    /\ e_saves = <<>>
    /\ e_file = <<>>
    /\ e_result = NoReturn

ENext ==
    \/ ChineseAIEngine_init
    \/ ECall
    \/ EClient
    \/ ERequest1
    \/ EToolCall
    \/ ERequest2
    \/ EReturn

-----------------------------------------------------------------------------
(* get_openai_client (translator/ai_engine.py, lines 255-269) *)

NoClientReturn == [kind |-> "none", client |-> FALSE]
ClientReturn(client) == [kind |-> "return", client |-> client]

\* one call: the global client is built when it is None and the environment
\* holds a key; an error of OpenAI(...) is logged and client stays None;
\* the global is returned
get_openai_client ==
    /\ \E constructed \in BOOLEAN :
          /\ g_client' = ClientAfter(g_client, g_env, constructed)
          /\ g_construct' = Construction(g_client, g_env, constructed)
    /\ g_ret' = ClientReturn(g_client')
    /\ UNCHANGED g_env
    /\ UNCHANGED <<h_vars, e_vars, p_vars, v_vars>>

\* line 255: client = None; the environment is the process's own
GInit ==
    /\ g_env \in BOOLEAN
    /\ g_client = FALSE
    /\ g_construct = "none"
    /\ g_ret = NoClientReturn

GNext == get_openai_client

-----------------------------------------------------------------------------
(* _parse_ai_response on one JSON object text, bare and in a code block *)

\* what an object body is made of: a pair, or a pair whose string value
\* holds the fence
ObjectItems == {<<tok>> : tok \in ReplyFieldTokens} \cup {FencedString}

RECURSIVE Flatten(_)
Flatten(ss) == IF ss = <<>> THEN <<>> ELSE Head(ss) \o Flatten(Tail(ss))

JsonObjectTexts ==
    {<<"{">> \o Flatten(items) \o <<"}">> :
        items \in UNION {[1..n -> ObjectItems] : n \in 0..MaxFields}}

\* no tag, the tag json, the tag JSON
LanguageTags == {<<>>, <<"json">>, <<"JSON">>}

\* opening fence, tag, newline, J, newline, closing fence
Fenced(j, tag) == <<FENCE>> \o tag \o <<WS>> \o j \o <<WS, FENCE>>

NoParse == [kind |-> "none", fields |-> <<>>]

\* an object text and a tag are chosen
PCall ==
    /\ p_pc = "idle"
    /\ \E j \in JsonObjectTexts, tag \in LanguageTags :
          /\ p_json' = j
          /\ p_tag' = tag
    /\ p_bare' = NoParse
    /\ p_fenced' = NoParse
    /\ p_pc' = "bare"
    /\ UNCHANGED <<h_vars, e_vars, g_vars, v_vars>>

\* _parse_ai_response(J)
PBare ==
    /\ p_pc = "bare"
    /\ p_bare' = _parse_ai_response(p_json)
    /\ p_pc' = "fenced"
    /\ UNCHANGED <<p_json, p_tag, p_fenced>>
    /\ UNCHANGED <<h_vars, e_vars, g_vars, v_vars>>

\* _parse_ai_response(J in a code block)
PFenced ==
    /\ p_pc = "fenced"
    /\ p_fenced' = _parse_ai_response(Fenced(p_json, p_tag))
    /\ p_pc' = "done"
    /\ UNCHANGED <<p_json, p_tag, p_bare>>
    /\ UNCHANGED <<h_vars, e_vars, g_vars, v_vars>>

PReturn ==
    /\ p_pc = "done"
    /\ p_pc' = "idle"
    /\ UNCHANGED <<p_json, p_tag, p_bare, p_fenced>>
    /\ UNCHANGED <<h_vars, e_vars, g_vars, v_vars>>

PInit ==
    /\ p_pc = "idle"
    /\ p_json = <<>>
    /\ p_tag = <<>>
    /\ p_bare = NoParse
    /\ p_fenced = NoParse

PNext ==
    \/ PCall
    \/ PBare
    \/ PFenced
    \/ PReturn

-----------------------------------------------------------------------------
(* add_vocabulary_view (home/views.py, lines 67-164) *)

\* handlers that serve requests at the same time
MaxWorkers == 2

\* most rows the table holds when a POST is accepted
MaxStore == 2

Workers == 1..MaxWorkers

\* data["chinese"] of a success outcome
ResolvedWords == {<<"nihao">>, <<"zaijian">>, <<>>, None}

NoOutcome == [success |-> FALSE, chinese |-> None]

\* what get_ai_vocabulary_info hands to the view
Outcomes ==
    {NoOutcome} \cup {[success |-> TRUE, chinese |-> c] : c \in ResolvedWords}

\* Vocabulary.objects.filter(chinese=chinese_word).first() is a row
Existing(store, chinese_word) ==
    \E i \in 1..Len(store) : store[i] = chinese_word

\* lines 69-79 and 131-141: the form is validated and, when valid, the word
\* is resolved; a failure outcome or an invalid form ends in the error page
VPost(w) ==
    /\ v_pc[w] = "idle"
    /\ Len(v_store) < MaxStore
    /\ \E valid \in BOOLEAN, outcome \in Outcomes :
          IF valid
          THEN /\ v_outcome' = [v_outcome EXCEPT ![w] = outcome]
               /\ v_pc' = [v_pc EXCEPT ![w] = IF outcome.success THEN "check" ELSE "done"]
          ELSE /\ v_outcome' = [v_outcome EXCEPT ![w] = NoOutcome]
               /\ v_pc' = [v_pc EXCEPT ![w] = "done"]
    /\ v_created' = [v_created EXCEPT ![w] = 0]
    /\ UNCHANGED v_store
    /\ UNCHANGED <<h_vars, e_vars, g_vars, p_vars>>

\* lines 81-102: the query for a row with the same chinese; a row found
\* ends in the duplicate page
VCheck(w) ==
    /\ v_pc[w] = "check"
    /\ v_pc' = [v_pc EXCEPT ![w] =
                    IF Existing(v_store, v_outcome[w].chinese) THEN "done" ELSE "create"]
    /\ UNCHANGED <<v_store, v_outcome, v_created>>
    /\ UNCHANGED <<h_vars, e_vars, g_vars, p_vars>>

\* lines 105-112: Vocabulary.objects.create; chinese is NOT NULL, so None
\* raises IntegrityError and no row is written
VCreate(w) ==
    /\ v_pc[w] = "create"
    /\ IF v_outcome[w].chinese = None
       THEN /\ v_pc' = [v_pc EXCEPT ![w] = "raised"]
            /\ UNCHANGED <<v_store, v_created>>
       ELSE /\ v_store' = Append(v_store, v_outcome[w].chinese)
            /\ v_created' = [v_created EXCEPT ![w] = @ + 1]
            /\ v_pc' = [v_pc EXCEPT ![w] = "done"]
    /\ UNCHANGED v_outcome
    /\ UNCHANGED <<h_vars, e_vars, g_vars, p_vars>>

\* the response is sent
VReturn(w) ==
    /\ v_pc[w] \in {"done", "raised"}
    /\ v_pc' = [v_pc EXCEPT ![w] = "idle"]
    /\ UNCHANGED <<v_store, v_outcome, v_created>>
    /\ UNCHANGED <<h_vars, e_vars, g_vars, p_vars>>

\* the table of a new database: no row, so no two rows with one chinese
VInit ==
    /\ v_store = <<>>
    /\ v_pc = [w \in Workers |-> "idle"]
    /\ v_outcome = [w \in Workers |-> NoOutcome]
    /\ v_created = [w \in Workers |-> 0]

VNext ==
    \E w \in Workers :
        \/ VPost(w)
        \/ VCheck(w)
        \/ VCreate(w)
        \/ VReturn(w)

-----------------------------------------------------------------------------
(* Specifications *)

Init == HInit /\ EInit /\ GInit /\ PInit /\ VInit

\* the resolution pipeline alone
SpecHelper == Init /\ [][HNext]_vars

\* the tool-call loop alone
SpecEngine == Init /\ [][ENext]_vars

\* client selection: the helper's pipeline and calls of get_openai_client
SelectNext ==
    \/ HNext
    \/ GNext

SpecSelect == Init /\ [][SelectNext]_vars

\* the parser alone, on a bare and a fenced text of the same object
SpecParse == Init /\ [][PNext]_vars

\* the view alone, its handlers interleaved
SpecView == Init /\ [][VNext]_vars

-----------------------------------------------------------------------------
(* Properties of ChineseAIEngine.translate *)

ToolCalls == e_message.tool_calls

\* arguments that are a JSON object with the three required keys
GoodArgs(tool_call) ==
    LET args == json_loads(tool_call.arguments)
    IN  /\ args.kind = "object"
        /\ \A k \in {"chinese", "pinyin", "vietnamese"} : DictHas(args, k)

ValidPersist(tool_call) == tool_call.name = SAVE_VOCABULARY /\ GoodArgs(tool_call)

\* the chinese / pinyin / vietnamese a request with complete arguments names
ExpectedArgs(arguments) ==
    IF arguments = <<"{", "c=cong", "p=cong2", "v=tu", "}">>
    THEN [chinese |-> <<"cong">>, pinyin |-> <<"cong2">>, vietnamese |-> <<"tu">>]
    ELSE [chinese |-> <<"ni">>, pinyin |-> <<"ni3">>, vietnamese |-> <<"ban">>]

\* one entry per valid persist request, in request order
RECURSIVE ExpectedSaves(_)
ExpectedSaves(calls) ==
    IF calls = <<>> THEN <<>>
    ELSE (IF ValidPersist(Head(calls))
          THEN <<ExpectedArgs(Head(calls).arguments)>> ELSE <<>>)
         \o ExpectedSaves(Tail(calls))

\* C6: when the first reply carries n >= 1 persist requests with valid
\* arguments, there are exactly two round-trips and save_vocabulary runs
\* exactly n times, in request order, each time with its request's arguments.
C6_ValidCallbacksPersisted ==
    (/\ e_pc = "done"
     /\ e_message.kind = "reply"
     /\ Len(ToolCalls) >= 1
     /\ \A i \in 1..Len(ToolCalls) : ValidPersist(ToolCalls[i]))
        => /\ Len(e_requests) = 2
           /\ Len(e_saves) = Len(ToolCalls)
           /\ \A i \in 1..Len(ToolCalls) :
                 e_saves[i] = ExpectedArgs(ToolCalls[i].arguments)

C6_Witness ==
    /\ e_pc = "done"
    /\ Len(ToolCalls) = 2
    /\ \A i \in 1..2 : ValidPersist(ToolCalls[i])
    /\ ToolCalls[1].arguments # ToolCalls[2].arguments
    /\ Len(e_saves) = 2
    /\ Len(e_requests) = 2

\* C7: when the first reply carries no callback request there is exactly one
\* round-trip, nothing is persisted, and translate returns the reply's
\* content, or the placeholder when the content is empty, never a failure.
C7_DirectReply ==
    (e_pc = "done" /\ e_message.kind = "reply" /\ ToolCalls = <<>>)
        => /\ Len(e_requests) = 1
           /\ e_saves = <<>>
           /\ e_result.kind = "return"
           /\ ~e_result.failure
           /\ e_result.text = IF e_message.content \in {None, <<>>}
                              THEN PLACEHOLDER ELSE e_message.content

C7_Witness ==
    /\ e_pc = "done"
    /\ e_message.kind = "reply"
    /\ ToolCalls = <<>>
    /\ e_message.content = <<>>
    /\ e_result.text = PLACEHOLDER

\* C8: a callback request whose arguments are no JSON or lack a required key
\* is not persisted and gets a result turn describing the error; every
\* sibling request is still processed and the second round-trip is issued.
C8_BadArgumentsAbsorbed ==
    (e_pc \in {"request2", "done"} /\ e_message.kind = "reply" /\ Len(ToolCalls) >= 1)
        => /\ Len(e_messages) = 3 + Len(ToolCalls)
           /\ e_saves = ExpectedSaves(ToolCalls)
           /\ \A i \in 1..Len(ToolCalls) :
                 ~GoodArgs(ToolCalls[i])
                    => /\ e_messages[3 + i].role = "tool"
                       /\ e_messages[3 + i].tool_call_id = ToolCalls[i].id
                       /\ Head(e_messages[3 + i].content) =
                            IF json_loads(ToolCalls[i].arguments).kind = "error"
                               \/ ToolCalls[i].name = SAVE_VOCABULARY
                            THEN "Error: " ELSE "Unknown function: "
           /\ e_pc = "done" => Len(e_requests) = 2

C8_Witness ==
    /\ e_pc = "done"
    /\ Len(ToolCalls) = 2
    /\ ToolCalls[1].name = SAVE_VOCABULARY
    /\ json_loads(ToolCalls[1].arguments).kind = "error"
    /\ ValidPersist(ToolCalls[2])
    /\ Len(e_saves) = 1
    /\ Len(e_requests) = 2

\* C9: translate issues at most two requests; the second one is issued after
\* every callback request of the first reply was processed, carries the whole
\* turn history and no tools / tool_choice, and its content is returned
\* without a look at the callback requests it may carry.
C9_TwoRoundTrips ==
    /\ Len(e_requests) <= 2
    /\ Len(e_requests) = 2
          => /\ Len(ToolCalls) >= 1
             /\ e_idx = Len(ToolCalls) + 1
             /\ Len(e_messages) = 3 + Len(ToolCalls)
             /\ e_requests[2] = [messages |-> e_messages, tools |-> FALSE,
                                 tool_choice |-> ""]
    /\ (e_pc = "done" /\ e_final.kind = "reply")
          => /\ e_result.kind = "return"
             /\ ~e_result.failure
             /\ e_result.text = e_final.content
             /\ e_saves = ExpectedSaves(ToolCalls)

C9_Witness ==
    /\ e_pc = "done"
    /\ e_final.kind = "reply"
    /\ e_final.tool_calls # <<>>
    /\ Len(e_requests) = 2
    /\ Len(ToolCalls) = 2

\* C10: when the first or the second request raises, translate stops: no
\* further request, no retry, no translation fallback, and the failure text
\* with the provider's error is returned, not raised.
C10_ProviderFailureTerminates ==
    /\ e_message.kind = "raise"
          => /\ e_pc \in {"done", "idle"}
             /\ Len(e_requests) = 1
             /\ e_saves = <<>>
             /\ e_result = [kind |-> "return", failure |-> TRUE,
                            text |-> <<"X Loi ket noi OpenAI: ">> \o e_message.error]
    /\ e_final.kind = "raise"
          => /\ e_pc \in {"done", "idle"}
             /\ Len(e_requests) = 2
             /\ e_result = [kind |-> "return", failure |-> TRUE,
                            text |-> <<"X Loi ket noi OpenAI: ">> \o e_final.error]
    /\ e_result.kind # "raise"
    /\ h_translateCalls = <<>> /\ h_backendReqs = <<>>

C10_Witness ==
    /\ e_pc = "done"
    /\ e_final.kind = "raise"
    /\ Len(e_requests) = 2
    /\ e_result.failure

\* C20: with no credential configured, translate issues no provider
\* request, runs no persist callback, lets no exception out and returns the
\* failure text to its caller.
C20_NoCredentialDegrades ==
    (e_pc = "done" /\ ~e_api_key)
        => /\ e_requests = <<>>
           /\ e_saves = <<>>
           /\ e_result = TranslateFailure(<<"API key khong ton tai">>)
           /\ e_result.kind = "return"
           /\ e_result.failure

C20_Witness ==
    /\ e_pc = "done"
    /\ ~e_api_key
    /\ e_file # <<>>
    /\ e_result.kind = "return"
    /\ e_result.failure

-----------------------------------------------------------------------------
(* Properties of _parse_ai_response *)

\* C18: for every JSON object text J, _parse_ai_response of J inside a code
\* block (opening fence, optional language tag, closing fence) returns the
\* same parsed object as _parse_ai_response of the bare J.
C18_FencedParsesLikeBare ==
    p_pc = "done" => /\ p_bare.kind = "object"
                     /\ p_fenced = p_bare

-----------------------------------------------------------------------------
(* Properties of client selection *)

HelperClientRead == h_pc \in {"request", "parse", "fallback", "done"}

\* C19: the client property and get_openai_client yield a client only when
\* a credential is present and OpenAI(...) did not raise; with no credential
\* or a raising construction they yield None, nothing is raised, no provider
\* request is issued and get_vocabulary_info goes to the fallback.
C19_ClientSelection ==
    /\ HelperClientRead =>
          /\ h_client => h_api_key /\ h_construct # "raise"
          /\ (~h_api_key \/ h_construct = "raise") =>
                /\ ~h_client
                /\ h_primaryReqs = <<>>
                /\ h_pc \in {"fallback", "done"}
                /\ h_pc = "done" => /\ h_result.kind = "return"
                                    /\ h_result.method # OPENAI
    /\ g_ret.kind = "return" =>
          /\ g_ret.client => g_env /\ g_construct # "raise"
          /\ (~g_env \/ g_construct = "raise") => ~g_ret.client /\ ~g_client

C19_Witness ==
    /\ h_pc = "done"
    /\ h_api_key
    /\ h_construct = "raise"
    /\ ~h_client
    /\ h_translateCalls # <<>>
    /\ g_ret.kind = "return"
    /\ g_env
    /\ g_construct = "raise"
    /\ ~g_ret.client

-----------------------------------------------------------------------------
(* Properties of the turn history and of the order of effects *)

IsPrefix(s, t) == Len(s) <= Len(t) /\ SubSeq(t, 1, Len(s)) = s

\* the first three turns of a history whose first reply is message
HistoryHead(messages, message) ==
    /\ Len(messages) >= 3
    /\ messages[1].role = "system" /\ messages[1].content = SYSTEM_PROMPT
    /\ messages[2].role = "user" /\ messages[2].content \in Texts
    /\ messages[3] = Turn("assistant", message.content, message.tool_calls, 0)

\* C21: the turn history of one translate call is append-only; a call starts
\* from a fresh [system, user]; when the first reply carries n callback
\* requests the second request is sent with exactly [system, user, assistant
\* turn, result_1 .. result_n], one result turn per request, in request
\* order, carrying that request's id, whatever the request's outcome.
C21_HistoryAppendOnly ==
    [][/\ e_pc # "idle" => IsPrefix(e_messages, e_messages')
       /\ e_pc' = "client" =>
             /\ Len(e_messages') = 2
             /\ e_messages'[1].role = "system"
             /\ e_messages'[2].role = "user"
       /\ Len(e_requests') = 2 /\ Len(e_requests) = 1 =>
             LET sent == e_requests'[2].messages
                 n == Len(e_message.tool_calls)
             IN  /\ n >= 1
                 /\ sent = e_messages
                 /\ Len(sent) = 3 + n
                 /\ HistoryHead(sent, e_message)
                 /\ \A i \in 1..n :
                       /\ sent[3 + i].role = "tool"
                       /\ sent[3 + i].tool_call_id = e_message.tool_calls[i].id
                       /\ sent[3 + i].tool_calls = <<>>
      ]_vars

\* two requests with different outcomes, after an earlier call left a line
C21_Witness ==
    /\ e_pc = "done"
    /\ Len(e_requests) = 2
    /\ Len(e_message.tool_calls) = 2
    /\ Len(e_saves) = 1
    /\ e_message.tool_calls[1].name # SAVE_VOCABULARY
    /\ Len(e_requests[2].messages) = 5
    /\ e_requests[2].messages[5].tool_call_id = 2

\* C22: every persist callback of a call runs before the second request is
\* issued; when the first request fails nothing is persisted; the vocabulary
\* file only grows, and only inside the tool loop, so a line written by a
\* callback is still there when the second request fails and translate
\* returns the failure text.
C22_PersistBeforeSecondRequest ==
    [][/\ IsPrefix(e_file, e_file')
       /\ e_file' # e_file =>
             /\ e_pc = "tools"
             /\ e_message.kind = "reply"
             /\ Len(e_requests) = 1 /\ Len(e_requests') = 1
       /\ Len(e_requests') = 2 /\ Len(e_requests) = 1 =>
             /\ e_idx > Len(e_message.tool_calls)
             /\ e_saves = ExpectedSaves(e_message.tool_calls)
             /\ e_saves' = e_saves
             /\ e_file' = e_file
       /\ e_pc' = "done" /\ e_message'.kind = "raise" => e_saves' = <<>>
       /\ e_pc # "done" /\ e_pc' = "done" /\ e_final'.kind = "raise" =>
             /\ e_result'.kind = "return" /\ e_result'.failure
             /\ e_saves' = e_saves
             /\ e_file' = e_file
      ]_vars

\* two lines in the file, the second written by this call, whose second
\* request failed
C22_Witness ==
    /\ e_pc = "done"
    /\ e_final.kind = "raise"
    /\ e_result.failure
    /\ Len(e_saves) = 1
    /\ Len(e_file) = 2
    /\ e_file[2] = Str(e_saves[1].chinese) \o <<" (">> \o Str(e_saves[1].pinyin)
                        \o <<") : ">> \o Str(e_saves[1].vietnamese)

\* the requests of the first reply that carry the declared callback name
NamedCalls == SelectSeq(e_message.tool_calls, LAMBDA tc : tc.name = SAVE_VOCABULARY)

\* the loop ran to its end: one result turn per request, then request two
LoopCompleted ==
    /\ Len(e_requests) = 2
    /\ Len(e_messages) = 3 + Len(e_message.tool_calls)
    /\ Len(e_saves) <= Len(NamedCalls)
    /\ \A i \in 1..Len(e_saves) : \E j \in 1..Len(NamedCalls) :
          e_saves[i] = ExpectedArgs(NamedCalls[j].arguments)

AfterToolLoop ==
    e_pc = "done" /\ e_message.kind = "reply" /\ e_message.tool_calls # <<>>

\* C23 as stated: the persist callback runs only for requests named
\* save_vocabulary; a request with any other name persists nothing, gets a
\* result turn saying the function is unknown, and the loop and the second
\* round-trip go on.
C23_UnknownNameAnswered ==
    AfterToolLoop =>
        /\ LoopCompleted
        /\ \A i \in 1..Len(e_message.tool_calls) :
              e_message.tool_calls[i].name # SAVE_VOCABULARY =>
                  e_messages[3 + i].content
                      = <<"Unknown function: ", e_message.tool_calls[i].name>>

\* C23 amended: as above, but the unknown-function turn is given to the
\* requests whose arguments parse as JSON; arguments that do not parse get
\* the error turn of json.loads, whatever the name.
C23_UnknownNameNotPersisted ==
    AfterToolLoop =>
        /\ LoopCompleted
        /\ \A i \in 1..Len(e_message.tool_calls) :
              LET tc == e_message.tool_calls[i]
              IN  tc.name # SAVE_VOCABULARY =>
                      e_messages[3 + i].content
                          = IF json_loads(tc.arguments).kind = "error"
                            THEN <<"Error: ", "JSONDecodeError">>
                            ELSE <<"Unknown function: ", tc.name>>

\* an unknown name with good arguments, then a declared name: only the
\* second is persisted
C23_Witness ==
    /\ AfterToolLoop
    /\ Len(e_message.tool_calls) = 2
    /\ e_message.tool_calls[1].name # SAVE_VOCABULARY
    /\ GoodArgs(e_message.tool_calls[1])
    /\ ValidPersist(e_message.tool_calls[2])
    /\ e_messages[4].content = <<"Unknown function: ", "luu_tu_vung">>
    /\ Len(e_saves) = 1
    /\ Len(e_requests) = 2

\* C24: on every path translate returns a text that is neither None nor
\* empty, and lets no exception out.
C24_NonEmptyReply ==
    e_pc = "done" =>
        /\ e_result.kind = "return"
        /\ e_result.text # None
        /\ e_result.text # <<>>

-----------------------------------------------------------------------------
(* Properties of GoogleTranslator.translate *)

\* C25: GoogleTranslator.translate always returns a result dict, success
\* with the translation or failure with an error, and never raises, whatever
\* the backends do; googletrans is tried only when deep-translator is not
\* importable.
C25_TranslateReturnsDict ==
    h_translation.kind # "none" =>
        /\ h_translation.kind = "dict"
        /\ ~h_translation.success => h_translation.error # None
        /\ \A i \in 1..Len(h_backendReqs) :
              h_backendReqs[i].backend = "googletrans" =>
                  \A j \in 1..Len(h_backendReqs) :
                      h_backendReqs[j].backend # "deep-translator"

-----------------------------------------------------------------------------
(* Properties of add_vocabulary_view *)

\* C26: a row is created only after a success outcome and only when no row
\* has the same chinese, at most one row per POST; so, starting from a table
\* with pairwise distinct chinese values, no two rows have the same chinese
\* after any POST requests, concurrent ones included.
C26_NoDuplicateChinese ==
    /\ \A w \in Workers :
          /\ v_created[w] <= 1
          /\ v_created[w] = 1 => v_outcome[w].success
    /\ \A i, j \in 1..Len(v_store) : i # j => v_store[i] # v_store[j]

====
